---- MODULE Spec2Model ----
(***************************************************************************)
(* A model of the collaborative text editor: the sequence CRDT             *)
(* (DocumentCRDT), the editor component (CollaborativeEditor) and the      *)
(* websocket relay (server/src/index.ts).                                  *)
(*                                                                         *)
(* JavaScript objects are modelled with a heap: a store's Map holds        *)
(* references to Character objects, so that two stores that hold the same  *)
(* object (after merge) see each other's mutations, while stores built by  *)
(* fromJSON hold objects of their own.                                     *)
(***************************************************************************)
EXTENDS Integers, Sequences, FiniteSets, TLC

VARIABLES
    \* DocumentCRDT replicas
    heap,            \* the Character objects: reference -> Character
    characters,      \* characters[d]: the Map of replica d, id -> reference
    clock,           \* clock[d]: the logical clock of replica d
    uuid,            \* uuid[d]: the number of identifiers uuidv4() returned at d
    \* CollaborativeEditor components and the relay
    text,            \* text[e]: the Character[] state of editor e
    cursorPosition,  \* cursorPosition[e]
    selectedId,      \* selectedId[e]
    activeUsers,     \* activeUsers[e]
    readyState,      \* readyState[e]: the state of editor e's WebSocket
    rooms,           \* the relay's rooms: roomId -> set of connections
    toServer,        \* toServer[e]: messages sent by e, not yet received by the relay
    toClient,        \* toClient[e]: messages sent to e, not yet received by it
    received,        \* received[e]: the doc-update messages e has processed so far
    edits,           \* edits[e]: the local edits of e, each with received[e] at its time
    \* comparePositions applied to drawn positions
    cmpIn,           \* the positions a, b, c
    cmpOut,          \* the comparator's results on them, <<>> before the call
    \* calls that return a value to the caller
    shown,           \* what the last getText() returned, <<>> before a call
    loaded           \* the outcome of fromJSON on a received payload, <<>> before it

crdtVars == <<heap, characters, clock, uuid>>
editorVars == <<text, cursorPosition, selectedId, activeUsers, readyState, rooms, toServer, toClient, received, edits>>
cmpVars == <<cmpIn, cmpOut>>
callVars == <<shown, loaded>>
vars == <<crdtVars, editorVars, cmpVars, callVars>>

----------------------------------------------------------------------------
(* Bounds of the model *)

\* the number of characters ever inserted, over all replicas
MaxChars == 2

\* the number of Character objects alive at a time, over all replicas
MaxObjects == 3

\* the number of local edits (keys, backspaces), over all editors
MaxEdits == 2

\* the last clock value of the drawn positions
MaxDrawnClock == 2

\* the number of characters a user types into one document
MaxTyped == 7

----------------------------------------------------------------------------
(* Program constants *)

BASE == 32
BOUNDARY == 10

\* The replicas; each is a DocumentCRDT constructed with its own site id.
Sites == {"A", "B", "C"}

\* the replicas whose user types, where not all of them do
Writers == {"A", "B"}

\* null (prevId / nextId of insert); a character id is <<site, n>>, the n-th
\* identifier uuidv4() returned at that site
Null == <<>>

Values == {"x"}

\* The Partial<CharacterMetadata> arguments the model passes: insert is called
\* with no metadata; updateMetadata formats (the characters of Formatted) or
\* clears the deleted flag.
InsertMetadata == {<<>>}
Formatted == {<<"A", 1>>}
UpdatePartials(charId) == {[deleted |-> FALSE]} \cup (IF charId \in Formatted THEN {[bold |-> TRUE, italic |-> TRUE]} ELSE {})

----------------------------------------------------------------------------
(* Helpers for JavaScript values *)

Min(a, b) == IF a < b THEN a ELSE b

\* Math.floor(a / 2) for an integer a
FloorHalf(a) == a \div 2

\* slice(1) in the place of slice(from)
Slice_one(s, from) == IF Len(s) <= 1 THEN <<>> ELSE SubSeq(s, 2, Len(s))

\* Array.prototype.slice(from)
Slice(s, from) == IF from >= Len(s) THEN <<>> ELSE SubSeq(s, from + 1, Len(s))

\* String.prototype.localeCompare on the site ids of the model (ASCII capitals,
\* which every locale collates in alphabetical order)
SiteRank(s) == CASE s = "A" -> 1 [] s = "B" -> 2 [] s = "C" -> 3 [] OTHER -> 0
localeCompare(s1, s2) == IF SiteRank(s1) < SiteRank(s2) THEN -1 ELSE IF SiteRank(s1) > SiteRank(s2) THEN 1 ELSE 0

\* metadata.f || false
Flag(partial, f) == IF f \in DOMAIN partial THEN partial[f] ELSE FALSE

\* { ...metadata, ...partial }
Spread(metadata, partial) == [f \in DOMAIN metadata |-> IF f \in DOMAIN partial THEN partial[f] ELSE metadata[f]]

----------------------------------------------------------------------------
(* Map<string, Character>: a sequence of entries in insertion order *)

Keys(chars) == {chars[k].id : k \in 1..Len(chars)}
Refs(chars) == {chars[k].ref : k \in 1..Len(chars)}
MapHas(chars, id) == \E k \in 1..Len(chars) : chars[k].id = id
MapIndex(chars, id) == CHOOSE k \in 1..Len(chars) : chars[k].id = id
MapGet(chars, id) == chars[MapIndex(chars, id)].ref
\* Map.prototype.set: an existing key keeps its place in the iteration order
MapSet(chars, id, ref) == IF MapHas(chars, id) THEN [chars EXCEPT ![MapIndex(chars, id)] = [id |-> id, ref |-> ref]] ELSE Append(chars, [id |-> id, ref |-> ref])

----------------------------------------------------------------------------
(* Position comparator *)

RECURSIVE compareDigits(_, _, _, _)
compareDigits(index1, index2, i, len) == IF i > len THEN 0 ELSE IF index1[i] # index2[i] THEN index1[i] - index2[i] ELSE compareDigits(index1, index2, i + 1, len)

\* comparePositions without the site tie-break
comparePositions_noSite(pos1, pos2) ==
    LET len == Min(Len(pos1.index), Len(pos2.index))
        d == compareDigits(pos1.index, pos2.index, 1, len)
    IN  IF d # 0 THEN d
        ELSE IF Len(pos1.index) # Len(pos2.index) THEN Len(pos1.index) - Len(pos2.index)
        ELSE pos1.clock - pos2.clock

\* comparePositions without the clock tie-break
comparePositions_noClock(pos1, pos2) ==
    LET len == Min(Len(pos1.index), Len(pos2.index))
        d == compareDigits(pos1.index, pos2.index, 1, len)
    IN  IF d # 0 THEN d
        ELSE IF Len(pos1.index) # Len(pos2.index) THEN Len(pos1.index) - Len(pos2.index)
        ELSE localeCompare(pos1.site, pos2.site)

comparePositions(pos1, pos2) ==
    LET len == Min(Len(pos1.index), Len(pos2.index))
        d == compareDigits(pos1.index, pos2.index, 1, len)
    IN  IF d # 0 THEN d
        ELSE IF Len(pos1.index) # Len(pos2.index) THEN Len(pos1.index) - Len(pos2.index)
        ELSE IF pos1.site # pos2.site THEN localeCompare(pos1.site, pos2.site)
        ELSE pos1.clock - pos2.clock

----------------------------------------------------------------------------
(* Position allocator.  A nullable Position is a sequence of length 0 (null)
   or 1. *)

incrementClock(clk) == clk + 1

\* generatePositionBefore that does not step down from the first digit
generatePositionBefore_same(index) == <<index[1]>>

generatePositionBefore(index) == IF index[1] <= BOUNDARY THEN <<index[1] - 1>> ELSE <<index[1] - BOUNDARY>>

generatePositionAfter(index) == Append(index, BASE)

\* the length of the common prefix walked by the while loop
RECURSIVE commonPrefix(_, _, _)
commonPrefix(prevIndex, nextIndex, i) == IF i < Len(prevIndex) /\ i < Len(nextIndex) /\ prevIndex[i + 1] = nextIndex[i + 1] THEN commonPrefix(prevIndex, nextIndex, i + 1) ELSE i

RECURSIVE generatePositionBetween(_, _, _, _, _)
generatePositionBetween(siteId, clk, prev, next, newPos) ==
    IF prev = <<>> /\ next = <<>>
    THEN [index |-> <<BASE>>, site |-> siteId, clock |-> incrementClock(clk)]
    ELSE IF prev = <<>>
    THEN [index |-> generatePositionBefore(next[1].index), site |-> siteId, clock |-> incrementClock(clk)]
    ELSE IF next = <<>>
    THEN [index |-> generatePositionAfter(prev[1].index), site |-> siteId, clock |-> incrementClock(clk)]
    ELSE LET prevIndex == prev[1].index
             nextIndex == next[1].index
             i == commonPrefix(prevIndex, nextIndex, 0)
             head == newPos \o SubSeq(prevIndex, 1, i)
             prevDigit == IF i < Len(prevIndex) THEN prevIndex[i + 1] ELSE 0
             nextDigit == IF i < Len(nextIndex) THEN nextIndex[i + 1] ELSE BASE
             difference == nextDigit - prevDigit
         IN  IF difference > 1
             THEN [index |-> Append(head, prevDigit + FloorHalf(difference)), site |-> siteId, clock |-> incrementClock(clk)]
             ELSE generatePositionBetween(siteId, clk,
                      <<[prev[1] EXCEPT !.index = Slice(prevIndex, i + 1)]>>,
                      <<[next[1] EXCEPT !.index = Slice(nextIndex, i + 1)]>>,
                      Append(head, prevDigit))

\* the number of recursive calls generatePositionBetween makes for two
\* positions, neither null
RECURSIVE recursionDepth(_, _)
recursionDepth(prevIndex, nextIndex) ==
    LET i == commonPrefix(prevIndex, nextIndex, 0)
        prevDigit == IF i < Len(prevIndex) THEN prevIndex[i + 1] ELSE 0
        nextDigit == IF i < Len(nextIndex) THEN nextIndex[i + 1] ELSE BASE
    IN  IF nextDigit - prevDigit > 1 THEN 0 ELSE 1 + recursionDepth(Slice(prevIndex, i + 1), Slice(nextIndex, i + 1))

----------------------------------------------------------------------------
(* Character store *)

\* this.characters.get(id)?.position || null, for id = null too
PositionOf(h, chars, id) == IF id # Null /\ MapHas(chars, id) THEN <<h[MapGet(chars, id)].position>> ELSE <<>>

\* the Character objects of a store, in the Map's iteration order
Values_(h, chars) == [k \in 1..Len(chars) |-> h[chars[k].ref]]

\* Array.prototype.filter(char => !char.metadata.deleted)
filterLive(cs) == SelectSeq(cs, LAMBDA char : ~char.metadata.deleted)

\* Array.prototype.sort with the comparator: a stable sort, so characters whose
\* positions compare equal keep the order of the Map
RECURSIVE insertSorted(_, _)
insertSorted(sorted, c) == IF sorted = <<>> THEN <<c>> ELSE IF comparePositions(c.position, sorted[Len(sorted)].position) >= 0 THEN Append(sorted, c) ELSE Append(insertSorted(SubSeq(sorted, 1, Len(sorted) - 1), c), sorted[Len(sorted)])

RECURSIVE sortByPosition(_)
sortByPosition(cs) == IF cs = <<>> THEN <<>> ELSE insertSorted(sortByPosition(SubSeq(cs, 1, Len(cs) - 1)), cs[Len(cs)])

\* getText without the sort: the visible characters in the Map's order
getText_unsorted(h, chars) == filterLive(Values_(h, chars))

\* getText without the filter: the deleted characters too
getText_withDeleted(h, chars) == sortByPosition(Values_(h, chars))

getText(h, chars) == sortByPosition(filterLive(Values_(h, chars)))

\* merge in which the remote character also wins when the positions are equal
RECURSIVE mergeLoop_remoteWinsTies(_, _, _, _)
mergeLoop_remoteWinsTies(h, thisChars, otherChars, k) ==
    IF k > Len(otherChars) THEN thisChars
    ELSE LET id == otherChars[k].id
             char == otherChars[k].ref
         IN  IF ~MapHas(thisChars, id)
             THEN mergeLoop_remoteWinsTies(h, MapSet(thisChars, id, char), otherChars, k + 1)
             ELSE IF comparePositions(h[char].position, h[MapGet(thisChars, id)].position) >= 0
                  THEN mergeLoop_remoteWinsTies(h, MapSet(thisChars, id, char), otherChars, k + 1)
                  ELSE mergeLoop_remoteWinsTies(h, thisChars, otherChars, k + 1)

\* merge(other): the resulting Map of this
RECURSIVE mergeLoop(_, _, _, _)
mergeLoop(h, thisChars, otherChars, k) ==
    IF k > Len(otherChars) THEN thisChars
    ELSE LET id == otherChars[k].id
             char == otherChars[k].ref
         IN  IF ~MapHas(thisChars, id)
             THEN mergeLoop(h, MapSet(thisChars, id, char), otherChars, k + 1)
             ELSE IF comparePositions(h[char].position, h[MapGet(thisChars, id)].position) > 0
                  THEN mergeLoop(h, MapSet(thisChars, id, char), otherChars, k + 1)
                  ELSE mergeLoop(h, thisChars, otherChars, k + 1)

\* merge that takes the other store's Map for its own
merge_replaceAll(h, thisChars, otherChars) == otherChars

\* merge whose loop misses the first entry of the other store
merge_skipFirst(h, thisChars, otherChars) == mergeLoop(h, thisChars, otherChars, 2)

merge(h, thisChars, otherChars) == mergeLoop(h, thisChars, otherChars, 1)

\* toJSON that leaves the deleted characters out
toJSON_liveOnly(h, chars) == LET live == SelectSeq(chars, LAMBDA entry : ~h[entry.ref].metadata.deleted) IN [k \in 1..Len(live) |-> <<live[k].id, h[live[k].ref]>>]

\* toJSON: the entries, each Character by value
toJSON(h, chars) == [k \in 1..Len(chars) |-> <<chars[k].id, h[chars[k].ref]>>]

----------------------------------------------------------------------------
(* The heap: a reference is <<id, n>>, the n-th object made for character id *)

RefsInUse(stores, except) == UNION {Refs(stores[d]) : d \in Sites \ {except}}

FreshRef(used, id) == <<id, CHOOSE n \in 1..(Cardinality(Sites) + 1) : <<id, n>> \notin used /\ \A m \in 1..(n - 1) : <<id, m>> \in used>>

\* fromJSON(json, siteId): the Map built from the parsed entries, whose Character
\* objects are new ones, the clock of a new DocumentCRDT, and the heap that holds
\* the objects in use and the new ones.
fromJSON(h, used, json) ==
    LET chars == [k \in 1..Len(json) |-> [id |-> json[k][1], ref |-> FreshRef(used, json[k][1])]]
    IN  [characters |-> chars,
         clock |-> 0,
         heap |-> [r \in used \cup Refs(chars) |-> IF r \in Refs(chars) THEN json[CHOOSE k \in 1..Len(chars) : chars[k].ref = r][2] ELSE h[r]]]

----------------------------------------------------------------------------
(* Actions *)

\* new DocumentCRDT(siteId) at every replica
InitCRDT ==
    /\ heap = [r \in {} |-> Null]
    /\ characters = [d \in Sites |-> <<>>]
    /\ clock = [d \in Sites |-> 0]
    /\ uuid = [d \in Sites |-> 0]

\* the number of identifiers generated so far
RECURSIVE Sum(_, _)
Sum(f, S) == IF S = {} THEN 0 ELSE LET x == CHOOSE y \in S : TRUE IN f[x] + Sum(f, S \ {x})
Generated == Sum(uuid, Sites)

\* uuidv4(): an identifier no earlier call returned
uuidv4(d) == <<d, uuid[d] + 1>>

\* insert(value, prevId, nextId, metadata) on replica d
Insert(d, value, prevId, nextId, metadata) ==
    /\ Generated < MaxTyped
    /\ LET position == generatePositionBetween(d, clock[d], PositionOf(heap, characters[d], prevId), PositionOf(heap, characters[d], nextId), <<>>)
           id == uuidv4(d)
           ref == <<id, 1>>
           char == [id |-> id, value |-> value, position |-> position,
                    metadata |-> [bold |-> Flag(metadata, "bold"), italic |-> Flag(metadata, "italic"), deleted |-> Flag(metadata, "deleted")]]
       IN  /\ heap' = (ref :> char) @@ heap
           /\ characters' = [characters EXCEPT ![d] = MapSet(@, id, ref)]
           /\ clock' = [clock EXCEPT ![d] = position.clock]
           /\ uuid' = [uuid EXCEPT ![d] = @ + 1]

\* delete that resets the formatting of the character too
delete_clearsFormat(h, chars, charId) == IF MapHas(chars, charId) THEN [h EXCEPT ![MapGet(chars, charId)].metadata = [bold |-> FALSE, italic |-> FALSE, deleted |-> TRUE]] ELSE h

\* delete(charId) on the store chars: the objects after it
delete(h, chars, charId) == IF MapHas(chars, charId) THEN [h EXCEPT ![MapGet(chars, charId)].metadata.deleted = TRUE] ELSE h

\* delete(charId) on replica d
Delete(d, charId) ==
    /\ heap' = delete(heap, characters[d], charId)
    /\ UNCHANGED <<characters, clock, uuid>>

\* updateMetadata(charId, metadata) on replica d
UpdateMetadata(d, charId, partial) ==
    /\ IF MapHas(characters[d], charId)
       THEN heap' = [heap EXCEPT ![MapGet(characters[d], charId)].metadata = Spread(@, partial)]
       ELSE heap' = heap
    /\ UNCHANGED <<characters, clock, uuid>>

\* d.merge(e)
Merge(d, e) ==
    /\ characters' = [characters EXCEPT ![d] = merge(heap, @, characters[e])]
    /\ UNCHANGED <<heap, clock, uuid>>

\* The neighbours a caller passes to insert: either is null (a document boundary),
\* or prevId sorts before nextId in the store.
Neighbours(d, prevId, nextId) ==
    IF prevId = Null \/ nextId = Null THEN TRUE
    ELSE comparePositions(heap[MapGet(characters[d], prevId)].position, heap[MapGet(characters[d], nextId)].position) < 0

\* d = DocumentCRDT.fromJSON(e.toJSON(), d): replica d restarts from a snapshot
\* of replica e (of itself when d = e), under its own site id and with the clock
\* of a new DocumentCRDT.  The objects no store holds any more leave the heap.
FromJSON(d, e) ==
    LET doc == fromJSON(heap, RefsInUse(characters, d), toJSON(heap, characters[e]))
    IN  /\ Cardinality(DOMAIN doc.heap) <= MaxObjects
        /\ heap' = doc.heap
        /\ characters' = [characters EXCEPT ![d] = doc.characters]
        /\ clock' = [clock EXCEPT ![d] = doc.clock]
        /\ UNCHANGED uuid

InsertStep == (\E d \in Sites, value \in Values, metadata \in InsertMetadata : \E prevId, nextId \in Keys(characters[d]) \cup {Null} : Generated < MaxChars /\ Neighbours(d, prevId, nextId) /\ Insert(d, value, prevId, nextId, metadata)) /\ UNCHANGED <<editorVars, cmpVars, callVars>>
WriterInsertStep == (\E d \in Writers, value \in Values, metadata \in InsertMetadata : \E prevId, nextId \in Keys(characters[d]) \cup {Null} : Generated < MaxChars /\ Neighbours(d, prevId, nextId) /\ Insert(d, value, prevId, nextId, metadata)) /\ UNCHANGED <<editorVars, cmpVars, callVars>>
DeleteStep == (\E d \in Sites : \E charId \in Keys(characters[d]) : Delete(d, charId)) /\ UNCHANGED <<editorVars, cmpVars, callVars>>
UpdateMetadataStep == (\E d \in Sites : \E charId \in Keys(characters[d]) : \E partial \in UpdatePartials(charId) : UpdateMetadata(d, charId, partial)) /\ UNCHANGED <<editorVars, cmpVars, callVars>>
MergeStep == (\E d, e \in Sites : d # e /\ Merge(d, e)) /\ UNCHANGED <<editorVars, cmpVars, callVars>>
\* The user of replica d types a character at a cursor: between two adjacent
\* characters of getText(), before the first or after the last.
Type(d, value, k) ==
    LET visible == getText(heap, characters[d])
        prevId == IF k = 0 THEN Null ELSE visible[k].id
        nextId == IF k = Len(visible) THEN Null ELSE visible[k + 1].id
    IN  Insert(d, value, prevId, nextId, <<>>)

TypeStep == (\E value \in Values : \E k \in 0..Len(getText(heap, characters["A"])) : Type("A", value, k)) /\ UNCHANGED <<editorVars, cmpVars, callVars>>
WriterMergeStep == (\E d, e \in Writers : d # e /\ Merge(d, e)) /\ UNCHANGED <<editorVars, cmpVars, callVars>>
FromJSONStep == (\E d, e \in Sites : characters[e] # <<>> /\ FromJSON(d, e)) /\ UNCHANGED <<editorVars, cmpVars, callVars>>
WriterFromJSONStep == (\E d, e \in Writers : characters[e] # <<>> /\ FromJSON(d, e)) /\ UNCHANGED <<editorVars, cmpVars, callVars>>

----------------------------------------------------------------------------
(* Calls that return a value *)

InitCalls ==
    /\ shown = <<>>
    /\ loaded = <<>>

\* d.getText(): the array it returns
GetText(d) ==
    /\ UNCHANGED <<crdtVars, loaded>>
    /\ shown' = getText(heap, characters[d])

GetTextStep == (\E d \in Sites : GetText(d)) /\ UNCHANGED <<editorVars, cmpVars>>

\* What can happen to the text of a snapshot before fromJSON gets it: nothing;
\* it is cut short; it is the text of another JSON value (null, a number, an
\* object, a string of characters, an array that holds a number instead of a
\* pair); the Character of its first entry is a number, or a Character without
\* position and metadata.
Damages == {"none", "truncated", "null", "number", "object", "string", "item-number", "value-number", "value-partial"}

\* The payload: the text of a JSON value, whole or cut short.  An array holds
\* the entries of the snapshot json, each of a kind: "entry" for [id, Character],
\* "entry-number" for [id, 5], "entry-partial" for [id, {value}], "number" for 5.
Payload(json, damage) ==
    [complete |-> damage # "truncated",
     t |-> IF damage \in {"null", "number", "object", "string"} THEN damage ELSE "array",
     items |-> [k \in 1..Len(json) |->
                  [id |-> json[k][1],
                   kind |-> IF k = 1 /\ damage = "item-number" THEN "number"
                            ELSE IF k = 1 /\ damage = "value-number" THEN "entry-number"
                            ELSE IF k = 1 /\ damage = "value-partial" THEN "entry-partial"
                            ELSE "entry"]]]

\* JSON.parse(text): the value, or a SyntaxError for a text cut short
JSONparse(payload) == IF payload.complete THEN [threw |-> "none", t |-> payload.t, items |-> payload.items] ELSE [threw |-> "SyntaxError", t |-> "", items |-> <<>>]

\* new Map(value): an empty Map for null, a TypeError for a value that is not
\* iterable or whose items are not objects, else a Map of the items, whatever
\* their keys and values are
NewMap(value) ==
    IF value.t = "null" THEN [threw |-> "none", characters |-> <<>>]
    ELSE IF value.t \in {"number", "object", "string"} THEN [threw |-> "TypeError", characters |-> <<>>]
    ELSE IF \E k \in 1..Len(value.items) : value.items[k].kind = "number" THEN [threw |-> "TypeError", characters |-> <<>>]
    ELSE [threw |-> "none", characters |-> value.items]

\* DocumentCRDT.fromJSON(text, siteId): the error thrown, or the store returned
fromJSONText(payload) ==
    LET value == JSONparse(payload)
    IN  IF value.threw # "none" THEN [threw |-> value.threw, characters |-> <<>>] ELSE NewMap(value)

\* DocumentCRDT.fromJSON on the snapshot of replica e as it arrives
Load(e, damage) ==
    /\ UNCHANGED <<crdtVars, shown>>
    /\ loaded' = [damage |-> damage, outcome |-> fromJSONText(Payload(toJSON(heap, characters[e]), damage))]

LoadStep == (\E e \in Writers, damage \in Damages : (damage \in {"item-number", "value-number", "value-partial"} => characters[e] # <<>>) /\ Load(e, damage)) /\ UNCHANGED <<editorVars, cmpVars>>

----------------------------------------------------------------------------
(* CollaborativeEditor and the relay *)

\* The editors; App mounts CollaborativeEditor with roomId "demo-room", and the
\* component's default roomId is "default-room".
Editors == {"e1", "e2", "e3"}
roomId(e) == IF e = "e3" THEN "default-room" ELSE "demo-room"
username(e) == e

\* the printable keys the users press
KeyChars == {"a"}

\* Date.now() at the first key press; a millisecond passes between two key presses
StartTime == 1000

\* null (selectedId)
NoId == 0

\* parseInt(count.toString())
parseInt(str) == CHOOSE n \in 0..Cardinality(Editors) : ToString(n) = str

\* Array.prototype.slice(0, end) and slice(start), for start, end >= 0
SliceTo(arr, end) == SubSeq(arr, 1, Min(end, Len(arr)))
SliceFrom(arr, start) == IF start >= Len(arr) THEN <<>> ELSE SubSeq(arr, start + 1, Len(arr))

\* text.filter((_, index) => index !== k), k a 0-based index
RemoveAt(arr, k) == IF k < 0 \/ k >= Len(arr) THEN arr ELSE SubSeq(arr, 1, k) \o SubSeq(arr, k + 2, Len(arr))

\* text.filter(char => char.id !== id)
RemoveId(arr, id) == SelectSeq(arr, LAMBDA char : char.id # id)

Max(a, b) == IF a > b THEN a ELSE b

InitEditor ==
    /\ text = [e \in Editors |-> <<>>]
    /\ cursorPosition = [e \in Editors |-> -1]
    /\ selectedId = [e \in Editors |-> NoId]
    /\ activeUsers = [e \in Editors |-> 1]
    /\ readyState = [e \in Editors |-> "CONNECTING"]
    /\ rooms = [r \in {} |-> {}]
    /\ toServer = [e \in Editors |-> <<>>]
    /\ toClient = [e \in Editors |-> <<>>]
    /\ received = [e \in Editors |-> 0]
    /\ edits = [e \in Editors |-> <<>>]

\* broadcast that sends to the sender too
broadcast_toSender(queues, rms, states, room, data, sender) ==
    [client \in Editors |->
        IF room \in DOMAIN rms /\ client \in rms[room] /\ states[client] = "OPEN"
        THEN Append(queues[client], data)
        ELSE queues[client]]

\* the relay's broadcast(data, sender) in the connection handler of room, the
\* connections being in the given states: the queues after the sends; sender
\* is a connection, or "" for none
broadcast(queues, rms, states, room, data, sender) ==
    [client \in Editors |->
        IF room \in DOMAIN rms /\ client \in rms[room] /\ client # sender /\ states[client] = "OPEN"
        THEN Append(queues[client], data)
        ELSE queues[client]]

\* broadcastUserCount() in the connection handler of room
broadcastUserCount(queues, rms, states, room) ==
    LET count == IF room \in DOMAIN rms THEN Cardinality(rms[room]) ELSE 0
    IN  broadcast(queues, rms, states, room, [type |-> "user-joined", content |-> ToString(count), roomId |-> room], "")

\* the WebSocket of editor e opens: the relay's 'connection' handler
Connect(e) ==
    /\ readyState[e] = "CONNECTING"
    /\ readyState' = [readyState EXCEPT ![e] = "OPEN"]
    /\ rooms' = IF roomId(e) \in DOMAIN rooms THEN [rooms EXCEPT ![roomId(e)] = @ \cup {e}] ELSE (roomId(e) :> {e}) @@ rooms
    /\ toClient' = broadcastUserCount(toClient, rooms', readyState', roomId(e))
    /\ UNCHANGED <<text, cursorPosition, selectedId, activeUsers, toServer, received, edits>>

\* the component unmounts and closes its WebSocket, whose messages the relay
\* has received: the relay's 'close' handler
Close(e) ==
    /\ readyState[e] = "OPEN"
    /\ toServer[e] = <<>>
    /\ readyState' = [readyState EXCEPT ![e] = "CLOSED"]
    /\ rooms' = IF rooms[roomId(e)] \ {e} = {} THEN [r \in DOMAIN rooms \ {roomId(e)} |-> rooms[r]] ELSE [rooms EXCEPT ![roomId(e)] = @ \ {e}]
    /\ toClient' = IF roomId(e) \in DOMAIN rooms'
                   THEN broadcastUserCount([toClient EXCEPT ![e] = <<>>], rooms', readyState', roomId(e))
                   ELSE [toClient EXCEPT ![e] = <<>>]
    /\ UNCHANGED <<text, cursorPosition, selectedId, activeUsers, toServer, received, edits>>

\* ws.on('message') for the connection of editor e
ServerMessage(e) ==
    /\ toServer[e] # <<>>
    /\ toServer' = [toServer EXCEPT ![e] = Tail(@)]
    /\ toClient' = broadcast(toClient, rooms, readyState, roomId(e), Head(toServer[e]), e)
    /\ UNCHANGED <<text, cursorPosition, selectedId, activeUsers, readyState, rooms, received, edits>>

\* websocket.onmessage of editor e
ClientMessage(e) ==
    /\ toClient[e] # <<>>
    /\ readyState[e] = "OPEN"
    /\ toClient' = [toClient EXCEPT ![e] = Tail(@)]
    /\ LET data == Head(toClient[e])
       IN  IF data.type = "user-joined"
           THEN /\ activeUsers' = [activeUsers EXCEPT ![e] = parseInt(data.content)]
                /\ UNCHANGED <<text, received>>
           ELSE IF data.type = "doc-update"
           THEN /\ text' = [text EXCEPT ![e] = data.content]
                /\ received' = [received EXCEPT ![e] = @ + 1]
                /\ UNCHANGED activeUsers
           ELSE UNCHANGED <<text, received, activeUsers>>
    /\ UNCHANGED <<cursorPosition, selectedId, readyState, rooms, toServer, edits>>

\* broadcastChanges(newText) of editor e: the queue to the relay after it
broadcastChanges(e, newText) ==
    IF readyState[e] = "OPEN"
    THEN [toServer EXCEPT ![e] = Append(@, [type |-> "doc-update", content |-> newText, roomId |-> roomId(e)])]
    ELSE toServer

\* the number of local edits so far, over all editors
LocalEdits == Len(edits["e1"]) + Len(edits["e2"]) + Len(edits["e3"])

\* handleKeyDown of editor e with a printable key, Date.now() returning now
KeyChar(e, key, now) ==
    /\ readyState[e] # "CLOSED"
    /\ LocalEdits < MaxEdits
    /\ LET newChar == [id |-> now, value |-> key, bold |-> FALSE, italic |-> FALSE, author |-> username(e)]
           insertPosition == IF cursorPosition[e] = -1 THEN Len(text[e]) ELSE cursorPosition[e]
           newText == SliceTo(text[e], insertPosition) \o <<newChar>> \o SliceFrom(text[e], insertPosition)
       IN  /\ text' = [text EXCEPT ![e] = newText]
           /\ cursorPosition' = [cursorPosition EXCEPT ![e] = insertPosition + 1]
           /\ toServer' = broadcastChanges(e, newText)
           /\ edits' = [edits EXCEPT ![e] = Append(@, [kind |-> "insert", char |-> newChar, received |-> received[e], sent |-> readyState[e] = "OPEN"])]
    /\ UNCHANGED <<selectedId, activeUsers, readyState, rooms, toClient, received>>

\* handleKeyDown of editor e with Backspace
Backspace(e) ==
    /\ readyState[e] # "CLOSED"
    /\ LocalEdits < MaxEdits
    /\ IF cursorPosition[e] > 0 \/ selectedId[e] # NoId
       THEN LET newText == IF selectedId[e] # NoId THEN RemoveId(text[e], selectedId[e]) ELSE RemoveAt(text[e], cursorPosition[e] - 1)
            IN  /\ text' = [text EXCEPT ![e] = newText]
                /\ selectedId' = [selectedId EXCEPT ![e] = NoId]
                /\ cursorPosition' = [cursorPosition EXCEPT ![e] = Max(0, @ - 1)]
                /\ toServer' = broadcastChanges(e, newText)
                /\ edits' = [edits EXCEPT ![e] = Append(@, [kind |-> "backspace", char |-> [id |-> NoId, value |-> "", bold |-> FALSE, italic |-> FALSE, author |-> username(e)], received |-> received[e], sent |-> readyState[e] = "OPEN"])]
       ELSE UNCHANGED <<text, selectedId, cursorPosition, toServer, edits>>
    /\ UNCHANGED <<activeUsers, readyState, rooms, toClient, received>>

\* handleKeyDown of editor e with ArrowLeft
ArrowLeft(e) ==
    /\ readyState[e] # "CLOSED"
    /\ cursorPosition' = [cursorPosition EXCEPT ![e] = Max(0, @ - 1)]
    /\ UNCHANGED <<text, selectedId, activeUsers, readyState, rooms, toServer, toClient, received, edits>>

\* handleKeyDown of editor e with ArrowRight
ArrowRight(e) ==
    /\ readyState[e] # "CLOSED"
    /\ cursorPosition' = [cursorPosition EXCEPT ![e] = Min(Len(text[e]), @ + 1)]
    /\ UNCHANGED <<text, selectedId, activeUsers, readyState, rooms, toServer, toClient, received, edits>>

\* handleClick(index) of editor e, on the character at index
handleClick(e, index) ==
    /\ readyState[e] # "CLOSED"
    /\ selectedId' = [selectedId EXCEPT ![e] = NoId]
    /\ cursorPosition' = [cursorPosition EXCEPT ![e] = index]
    /\ UNCHANGED <<text, activeUsers, readyState, rooms, toServer, toClient, received, edits>>

\* handleFormat(style) of editor e
handleFormat(e, style) ==
    /\ readyState[e] # "CLOSED"
    /\ IF selectedId[e] = NoId
       THEN UNCHANGED <<text, toServer>>
       ELSE LET newText == [k \in 1..Len(text[e]) |-> IF text[e][k].id = selectedId[e] THEN [text[e][k] EXCEPT ![style] = ~@] ELSE text[e][k]]
            IN  /\ text' = [text EXCEPT ![e] = newText]
                /\ toServer' = broadcastChanges(e, newText)
    /\ UNCHANGED <<cursorPosition, selectedId, activeUsers, readyState, rooms, toClient, received, edits>>

ConnectStep == (\E e \in Editors : Connect(e)) /\ UNCHANGED <<crdtVars, cmpVars, callVars>>
CloseStep == (\E e \in Editors : Close(e)) /\ UNCHANGED <<crdtVars, cmpVars, callVars>>
ServerMessageStep == (\E e \in Editors : ServerMessage(e)) /\ UNCHANGED <<crdtVars, cmpVars, callVars>>
ClientMessageStep == (\E e \in Editors : ClientMessage(e)) /\ UNCHANGED <<crdtVars, cmpVars, callVars>>
KeyCharStep == (\E e \in Editors, key \in KeyChars : KeyChar(e, key, StartTime + LocalEdits)) /\ UNCHANGED <<crdtVars, cmpVars, callVars>>
BackspaceStep == (\E e \in Editors : Backspace(e)) /\ UNCHANGED <<crdtVars, cmpVars, callVars>>
ArrowLeftStep == (\E e \in Editors : ArrowLeft(e)) /\ UNCHANGED <<crdtVars, cmpVars, callVars>>
ArrowRightStep == (\E e \in Editors : ArrowRight(e)) /\ UNCHANGED <<crdtVars, cmpVars, callVars>>
ClickStep == (\E e \in Editors : \E index \in 0..(Len(text[e]) - 1) : handleClick(e, index)) /\ UNCHANGED <<crdtVars, cmpVars, callVars>>
FormatStep == (\E e \in Editors, style \in {"bold", "italic"} : handleFormat(e, style)) /\ UNCHANGED <<crdtVars, cmpVars, callVars>>

NextEditor ==
    \/ ConnectStep
    \/ CloseStep
    \/ ServerMessageStep
    \/ ClientMessageStep
    \/ KeyCharStep
    \/ BackspaceStep
    \/ ArrowLeftStep
    \/ ArrowRightStep
    \/ ClickStep
    \/ FormatStep

----------------------------------------------------------------------------
(* The comparator on drawn positions *)

\* the digit sequences, sites and clocks of the drawn positions
DrawnIndexes == {<<0>>, <<16>>, <<32>>, <<16, 0>>, <<16, 32>>, <<32, 16, 1>>, <<-1>>}
DrawnSites == {"A", "B"}
Positions == [index : DrawnIndexes, site : DrawnSites, clock : 1..MaxDrawnClock]

InitCompare ==
    /\ cmpIn = <<>>
    /\ cmpOut = <<>>

InitDrawn ==
    /\ cmpIn \in Positions \X Positions \X Positions
    /\ cmpOut = <<>>

\* comparePositions on every pair of the drawn positions a, b, c
Compare ==
    /\ cmpOut = <<>>
    /\ cmpOut' = [i \in 1..3 |-> [j \in 1..3 |-> comparePositions(cmpIn[i], cmpIn[j])]]
    /\ UNCHANGED cmpIn

CompareStep == Compare /\ UNCHANGED <<crdtVars, editorVars, callVars>>

----------------------------------------------------------------------------
(* Specifications *)

Init == InitCRDT /\ InitEditor /\ InitCompare /\ InitCalls

\* Replicas that exchange their stores by merge and by serialized snapshots.
Next ==
    \/ InsertStep
    \/ DeleteStep
    \/ UpdateMetadataStep
    \/ MergeStep
    \/ FromJSONStep

Spec == Init /\ [][Next]_vars

\* Replicas that exchange their stores by merge alone; the users of the Writers
\* type, every replica deletes, formats and merges.
NextShared ==
    \/ WriterInsertStep
    \/ DeleteStep
    \/ UpdateMetadataStep
    \/ MergeStep

SpecShared == Init /\ [][NextShared]_vars

\* Replicas that only insert, and merge each other's stores.
NextInserts ==
    \/ InsertStep
    \/ MergeStep

SpecInserts == Init /\ [][NextInserts]_vars

\* The Writers insert, delete, format and merge each other's stores, and their
\* callers read the text.
NextRead ==
    \/ WriterInsertStep
    \/ DeleteStep
    \/ UpdateMetadataStep
    \/ WriterMergeStep
    \/ GetTextStep

SpecRead == Init /\ [][NextRead]_vars

\* One user types a document.
NextTyping ==
    \/ TypeStep

SpecTyping == Init /\ [][NextTyping]_vars

\* The Writers insert and delete, and a receiver loads their snapshots as they
\* arrive.
NextLoad ==
    \/ WriterInsertStep
    \/ DeleteStep
    \/ LoadStep

SpecLoad == Init /\ [][NextLoad]_vars

\* The Writers exchange their stores by serialized snapshots alone: a replica
\* loads the snapshot of the other, or reloads its own.
NextSnapshot ==
    \/ WriterInsertStep
    \/ DeleteStep
    \/ UpdateMetadataStep
    \/ WriterFromJSONStep

SpecSnapshot == Init /\ [][NextSnapshot]_vars

\* Editors connected to the relay.
SpecEditor == Init /\ [][NextEditor]_vars

\* Editors that type, connected to the relay.
NextRelay ==
    \/ ConnectStep
    \/ CloseStep
    \/ ServerMessageStep
    \/ ClientMessageStep
    \/ KeyCharStep

SpecRelay == Init /\ [][NextRelay]_vars

\* The comparator applied to positions drawn from Positions.
InitPositions == InitCRDT /\ InitEditor /\ InitDrawn /\ InitCalls

SpecCompare == InitPositions /\ [][CompareStep]_vars

----------------------------------------------------------------------------
(* Views of the state used by the properties *)

Text(d) == getText(heap, characters[d])
Ids(chars) == [k \in 1..Len(chars) |-> chars[k].id]
GeneratedIds == {id \in Sites \X (1..MaxChars) : id[2] <= uuid[id[1]]}
PositionIn(d, id) == heap[MapGet(characters[d], id)].position
DeletedIn(d, id) == heap[MapGet(characters[d], id)].metadata.deleted
Merged(d, e) == merge(heap, characters[d], characters[e])
SameDigits(d, id1, id2) == PositionIn(d, id1).index = PositionIn(d, id2).index

----------------------------------------------------------------------------
(* C1 - convergence of inserts *)

\* C1: once every replica holds every character inserted anywhere (each has
\* merged every other replica's state), getText() returns the same sequence of
\* character ids on every replica.
Convergence_C1 == (\A d \in Sites : Keys(characters[d]) = GeneratedIds) => \A d, e \in Sites : Ids(Text(d)) = Ids(Text(e))

\* Two replicas inserted concurrently at the same place (equal digits), every
\* replica has merged every other, and two Maps iterate in different orders.
Witness_C1 ==
    /\ Generated >= 2
    /\ \A d \in Sites : Keys(characters[d]) = GeneratedIds
    /\ \E d, e \in Sites : characters[d] # characters[e] /\ Len(Text(d)) >= 2
    /\ \E id1, id2 \in GeneratedIds : id1[1] # id2[1] /\ SameDigits("A", id1, id2)

----------------------------------------------------------------------------
(* C2 - tombstone survival *)

\* C2: when replica b holds its own copy (another object) of a character that
\* replica a holds too, and b's copy is deleted, then after a.merge(b) the
\* character is marked deleted in a's store and is not in a's getText().
TombstoneSurvival_C2 ==
    [][\A a, b \in Sites : (a # b /\ Merge(a, b)) =>
          \A id \in Keys(characters[a]) \cap Keys(characters[b]) :
              (MapGet(characters[a], id) # MapGet(characters[b], id) /\ DeletedIn(b, id)) =>
                  /\ heap'[MapGet(characters'[a], id)].metadata.deleted
                  /\ \A k \in 1..Len(getText(heap', characters'[a])) : getText(heap', characters'[a])[k].id # id]_vars

----------------------------------------------------------------------------
(* C3 - merge commutativity *)

\* C3: for any two stores, a.merge(b) and b.merge(a) have the same getText()
\* output: the same characters in the same order with the same metadata.
Commutativity_C3 == \A d, e \in Sites : SiteRank(d) < SiteRank(e) => getText(heap, Merged(d, e)) = getText(heap, Merged(e, d))

\* Two stores that each hold a visible character the other lacks, a formatted
\* character among them, so that the two merges build Maps of different orders.
Witness_C3 ==
    \E d, e \in Sites :
        /\ Keys(characters[d]) \ Keys(characters[e]) # {}
        /\ Keys(characters[e]) \ Keys(characters[d]) # {}
        /\ Merged(d, e) # Merged(e, d)
        /\ Len(getText(heap, Merged(d, e))) >= 2
        /\ \E k \in 1..Len(getText(heap, Merged(d, e))) : getText(heap, Merged(d, e))[k].metadata.bold

----------------------------------------------------------------------------
(* C4 - density *)

\* C4: for any two characters of a store with positions p < q, the position
\* that insert between them allocates is r with p < r < q.
Density_C4 ==
    \A d \in Sites : \A prevId, nextId \in Keys(characters[d]) :
        comparePositions(PositionIn(d, prevId), PositionIn(d, nextId)) < 0 =>
            LET r == generatePositionBetween(d, clock[d], PositionOf(heap, characters[d], prevId), PositionOf(heap, characters[d], nextId), <<>>)
            IN  /\ comparePositions(PositionIn(d, prevId), r) < 0
                /\ comparePositions(r, PositionIn(d, nextId)) < 0

----------------------------------------------------------------------------
(* C5 - deletion is one-way *)

\* C5: once a character's deleted flag is true in a store, it is true in that
\* store after every later insert, delete, updateMetadata and merge.
DeletionTerminal_C5 ==
    [][\A d \in Sites : \A id \in Keys(characters[d]) :
          DeletedIn(d, id) => (id \in Keys(characters'[d]) /\ heap'[MapGet(characters'[d], id)].metadata.deleted)]_vars

----------------------------------------------------------------------------
(* C6 - position uniqueness *)

\* C6: in every store, no two characters with different ids have positions
\* that compare equal (the same digits, site and clock).
PositionUniqueness_C6 ==
    \A d \in Sites : \A id1, id2 \in Keys(characters[d]) :
        id1 # id2 => comparePositions(PositionIn(d, id1), PositionIn(d, id2)) # 0

----------------------------------------------------------------------------
(* C8 - merge associativity *)

\* C8: for any three stores a, b, c, merging b and then c into a gives the same
\* getText() output as merging into a the result of merging c into b.
Associativity_C8 ==
    \A a, b, c \in Sites :
        (a # b /\ b # c /\ a # c) =>
            LET ab == merge(heap, characters[a], characters[b])
                bc == merge(heap, characters[b], characters[c])
            IN  getText(heap, merge(heap, ab, characters[c])) = getText(heap, merge(heap, characters[a], bc))

\* Three stores, b and c each holding a character the other two lack in part,
\* c holding b's character after its own.
Witness_C8 ==
    \E a, b, c \in Sites :
        /\ a # b /\ b # c /\ a # c
        /\ characters[b] # <<>>
        /\ Len(characters[c]) >= 2
        /\ characters[c][Len(characters[c])].id \in Keys(characters[b])
        /\ characters[c][1].id \notin Keys(characters[b]) \cup Keys(characters[a])
        /\ Len(getText(heap, merge(heap, characters[a], merge(heap, characters[b], characters[c])))) >= 2

----------------------------------------------------------------------------
(* C9 - merge idempotence *)

\* an identical copy of replica d's store: fromJSON(d.toJSON())
CopyOf(d) == fromJSON(heap, DOMAIN heap, toJSON(heap, characters[d]))

\* C9: merging a store with itself, or with an identical copy of itself, leaves
\* the Map's entries and getText() unchanged; merging the same remote store a
\* second time changes nothing beyond the first merge.
Idempotence_C9 ==
    \A d \in Sites :
        LET copy == CopyOf(d)
            twice == merge(copy.heap, characters[d], copy.characters)
        IN  /\ Merged(d, d) = characters[d]
            /\ twice = characters[d]
            /\ getText(copy.heap, twice) = Text(d)
            /\ \A e \in Sites \ {d} : LET once == Merged(d, e) IN merge(heap, once, characters[e]) = once

\* A store with a visible and a deleted character, whose copy holds objects of
\* its own, and a remote store whose merge adds a character.
Witness_C9 ==
    \E d, e \in Sites :
        /\ Len(characters[d]) >= 2
        /\ Len(Text(d)) = 1
        /\ Refs(CopyOf(d).characters) \cap Refs(characters[d]) = {}
        /\ Values_(CopyOf(d).heap, CopyOf(d).characters) = Values_(heap, characters[d])
        /\ Merged(e, d) # characters[e]

----------------------------------------------------------------------------
(* C7 - end-to-end convergence of editors *)

\* editor e made one local edit, a key press sent to the relay, before it
\* processed any doc-update
EditedConcurrently(e) == Len(edits[e]) = 1 /\ edits[e][1].kind = "insert" /\ edits[e][1].received = 0 /\ edits[e][1].sent

Delivered == \A e \in Editors : toServer[e] = <<>> /\ toClient[e] = <<>>

Shows(e, char) == \E k \in 1..Len(text[e]) : text[e][k] = char

\* C7: when two editors of a room each made a local edit before receiving the
\* other's doc-update, and the relay has delivered every message (each has
\* processed the other's doc-update), both show the same text, with both edits.
EditorsConverge_C7 ==
    \A e, f \in Editors :
        (/\ e # f /\ roomId(e) = roomId(f)
         /\ readyState[e] = "OPEN" /\ readyState[f] = "OPEN"
         /\ EditedConcurrently(e) /\ EditedConcurrently(f)
         /\ received[e] = 1 /\ received[f] = 1
         /\ Delivered) =>
            /\ text[e] = text[f]
            /\ Shows(e, edits[e][1].char) /\ Shows(e, edits[f][1].char)

----------------------------------------------------------------------------
(* C10 - the comparator is a strict total order *)

Sign(n) == IF n < 0 THEN -1 ELSE IF n > 0 THEN 1 ELSE 0

\* the first index at which two digit sequences differ, 0 when one is a prefix
\* of the other
FirstDifference(i1, i2) == IF \E k \in 1..Min(Len(i1), Len(i2)) : i1[k] # i2[k] THEN CHOOSE k \in 1..Min(Len(i1), Len(i2)) : i1[k] # i2[k] /\ \A m \in 1..(k - 1) : i1[m] = i2[m] ELSE 0

\* the order the claim describes: the first differing digit, then a strict
\* prefix before its extension, then the site id, then the clock
Ordered(a, b) ==
    LET k == FirstDifference(a.index, b.index)
    IN  IF k # 0 THEN Sign(a.index[k] - b.index[k])
        ELSE IF Len(a.index) # Len(b.index) THEN Sign(Len(a.index) - Len(b.index))
        ELSE IF a.site # b.site THEN (IF SiteRank(a.site) < SiteRank(b.site) THEN -1 ELSE 1)
        ELSE Sign(a.clock - b.clock)

\* C10: compare(a,a) = 0; compare(a,b) and compare(b,a) have opposite signs; the
\* order is transitive; compare(a,b) = 0 only when a and b have the same digits,
\* site and clock; the first differing digit decides, then the length, then
\* the site, then the clock.
StrictTotalOrder_C10 ==
    cmpOut # <<>> =>
        /\ \A i \in 1..3 : cmpOut[i][i] = 0
        /\ \A i, j \in 1..3 : Sign(cmpOut[i][j]) = -Sign(cmpOut[j][i])
        /\ \A i, j, k \in 1..3 : (cmpOut[i][j] < 0 /\ cmpOut[j][k] < 0) => cmpOut[i][k] < 0
        /\ \A i, j \in 1..3 : cmpOut[i][j] = 0 => cmpIn[i] = cmpIn[j]
        /\ \A i, j \in 1..3 : Sign(cmpOut[i][j]) = Ordered(cmpIn[i], cmpIn[j])

\* The comparator was applied to a and b that differ in the clock alone, and to
\* c that extends their digits and is of another site.
Witness_C10 ==
    /\ cmpOut # <<>>
    /\ cmpIn[1].index = cmpIn[2].index /\ cmpIn[1].site = cmpIn[2].site /\ cmpIn[1].clock < cmpIn[2].clock
    /\ Len(cmpIn[3].index) > Len(cmpIn[1].index)
    /\ SubSeq(cmpIn[3].index, 1, Len(cmpIn[1].index)) = cmpIn[1].index
    /\ cmpIn[3].site # cmpIn[1].site
    /\ cmpOut[1][2] < 0 /\ cmpOut[2][3] < 0 /\ cmpOut[1][3] < 0

----------------------------------------------------------------------------
(* C11 - serialization round trip *)

----------------------------------------------------------------------------
(* C12 - getText *)

\* the ids of the characters of replica d's store whose deleted flag is false
LiveIds(d) == {id \in Keys(characters[d]) : ~DeletedIn(d, id)}

\* C12: getText() returns exactly the characters of the store whose deleted flag
\* is false, each once, in ascending order of position under the comparator
\* whatever the order of the Map, and it leaves the store unchanged.
GetTextSorted_C12 ==
    [][\A d \in Sites : GetText(d) =>
          /\ {shown'[k].id : k \in 1..Len(shown')} = LiveIds(d)
          /\ Len(shown') = Cardinality(LiveIds(d))
          /\ \A k \in 1..Len(shown') : shown'[k] = heap[MapGet(characters[d], shown'[k].id)]
          /\ \A k \in 1..(Len(shown') - 1) : comparePositions(shown'[k].position, shown'[k + 1].position) <= 0
          /\ UNCHANGED crdtVars]_vars

\* getText() returned two characters of a store whose Map holds them in the
\* other order.
Witness_C12 ==
    /\ Len(shown) >= 2
    /\ \E d \in Sites : shown = Text(d) /\ Ids(shown) # Ids(characters[d])

----------------------------------------------------------------------------
(* C13 - characters are never removed *)

\* C13: after any insert, delete, updateMetadata or merge, every character id
\* that was in a store is still in it, with the same value and position.
NeverRemoved_C13 ==
    [][\A d \in Sites : \A id \in Keys(characters[d]) :
          /\ id \in Keys(characters'[d])
          /\ heap'[MapGet(characters'[d], id)].value = heap[MapGet(characters[d], id)].value
          /\ heap'[MapGet(characters'[d], id)].position = PositionIn(d, id)]_vars

\* A store holds a deleted character of its own replica, and a character it
\* took from another replica by merge.
Witness_C13 ==
    \E d \in Sites :
        /\ \E id \in Keys(characters[d]) : id[1] = d /\ DeletedIn(d, id)
        /\ \E id \in Keys(characters[d]) : id[1] # d

----------------------------------------------------------------------------
(* C14 - delete *)

\* an id that uuidv4() never returned
UnknownId == <<"A", 0>>

\* C14: delete(id) changes nothing but the deleted flag of the character with
\* that id, which becomes true; when the id is not in the store, or the
\* character is deleted already, nothing changes (and the call returns).
DeleteFrame_C14 ==
    \A d \in Sites : \A charId \in GeneratedIds \cup {UnknownId} :
        LET after == delete(heap, characters[d], charId)
        IN  IF charId \in Keys(characters[d]) /\ ~DeletedIn(d, charId)
            THEN /\ DOMAIN after = DOMAIN heap
                 /\ \A r \in DOMAIN heap : r # MapGet(characters[d], charId) => after[r] = heap[r]
                 /\ after[MapGet(characters[d], charId)].metadata.deleted
                 /\ after[MapGet(characters[d], charId)].id = charId
                 /\ after[MapGet(characters[d], charId)].value = heap[MapGet(characters[d], charId)].value
                 /\ after[MapGet(characters[d], charId)].position = PositionIn(d, charId)
                 /\ after[MapGet(characters[d], charId)].metadata.bold = heap[MapGet(characters[d], charId)].metadata.bold
                 /\ after[MapGet(characters[d], charId)].metadata.italic = heap[MapGet(characters[d], charId)].metadata.italic
            ELSE after = heap

\* A store holds a bold character that is not deleted, which delete marks, and
\* a character that delete marked already; the unknown id is not in it.
Witness_C14 ==
    \E d \in Sites :
        /\ \E id \in Keys(characters[d]) :
               /\ ~DeletedIn(d, id) /\ heap[MapGet(characters[d], id)].metadata.bold
               /\ delete(heap, characters[d], id) # heap
        /\ \E id \in Keys(characters[d]) : DeletedIn(d, id) /\ delete(heap, characters[d], id) = heap
        /\ UnknownId \notin Keys(characters[d])

----------------------------------------------------------------------------
(* C15 - relay broadcast *)

\* message k of the queue to editor c is a doc-update
DocUpdateAt(c, k) == toClient[c][k].type = "doc-update"

\* C15: when the relay receives a message on the connection of editor e, it
\* sends that message to every other open connection of e's room, and to no
\* other connection: not to e, not to a connection of another room.
RelayBroadcast_C15 ==
    [][\A e \in Editors : ServerMessage(e) =>
          \A c \in Editors :
              toClient'[c] = IF c # e /\ roomId(c) = roomId(e) /\ readyState[c] = "OPEN"
                             THEN Append(toClient[c], Head(toServer[e]))
                             ELSE toClient[c]]_vars

\* All editors are connected; the relay has received the doc-update of an
\* editor and sent it to the other editor of the room, and neither the sender
\* nor the editor of the other room has a doc-update to receive.
Witness_C15 ==
    \E e, c \in Editors :
        /\ e # c /\ roomId(e) = roomId(c)
        /\ \A f \in Editors : readyState[f] = "OPEN"
        /\ \E f \in Editors : roomId(f) # roomId(e)
        /\ Len(edits[e]) = 1 /\ edits[e][1].sent /\ edits[c] = <<>>
        /\ toServer[e] = <<>>
        /\ \E k \in 1..Len(toClient[c]) : DocUpdateAt(c, k) /\ toClient[c][k].content = <<edits[e][1].char>>
        /\ \A f \in Editors \ {c} : \A k \in 1..Len(toClient[f]) : ~DocUpdateAt(f, k)

----------------------------------------------------------------------------
(* C16 - malformed payloads *)

\* the store holds an entry that is not an (id, Character) pair
HoldsMalformed(outcome) == \E k \in 1..Len(outcome.characters) : outcome.characters[k].kind # "entry"

\* C16: fromJSON on a malformed or truncated payload fails, with an error that
\* is not the generic parse failure (the SyntaxError of JSON.parse), and never
\* returns a store that holds malformed entries.
MalformedRejected_C16 ==
    (loaded # <<>> /\ loaded.damage # "none") =>
        /\ loaded.outcome.threw \notin {"none", "SyntaxError"}
        /\ ~HoldsMalformed(loaded.outcome)

----------------------------------------------------------------------------
(* C17 - store isolation *)

\* C17: a delete or updateMetadata performed on the store of one replica changes
\* no character, and not the getText() output, of the store of another
\* replica, also after one merged the other.
StoreIsolation_C17 ==
    [][\A d \in Sites : \A charId \in Keys(characters[d]) :
          (Delete(d, charId) \/ \E partial \in UpdatePartials(charId) : UpdateMetadata(d, charId, partial)) =>
              \A e \in Sites \ {d} :
                  /\ Values_(heap', characters'[e]) = Values_(heap, characters[e])
                  /\ getText(heap', characters'[e]) = getText(heap, characters[e])]_vars

----------------------------------------------------------------------------
(* C18 - boundary inserts *)

----------------------------------------------------------------------------
(* C19 - digit range *)

\* C19: every digit of every position allocated by insert is between 0 and
\* BASE inclusive.
DigitRange_C19 ==
    \A d \in Sites : \A id \in Keys(characters[d]) :
        \A k \in 1..Len(PositionIn(d, id).index) :
            PositionIn(d, id).index[k] >= 0 /\ PositionIn(d, id).index[k] <= BASE

----------------------------------------------------------------------------
(* C20 - allocator termination *)

Longer(index1, index2) == Max(Len(index1), Len(index2))

\* C20: for every two characters of a store, generatePositionBetween returns
\* (it terminates), recursing at most once per digit of the longer of their
\* digit sequences, and the allocated digit sequence is at most one digit
\* longer than the longer of the two.
AllocatorTerminates_C20 ==
    \A d \in Sites : \A prevId, nextId \in Keys(characters[d]) :
        prevId # nextId =>
            LET prev == PositionIn(d, prevId)
                next == PositionIn(d, nextId)
                r == generatePositionBetween(d, clock[d], <<prev>>, <<next>>, <<>>)
            IN  /\ Len(r.index) >= 1
                /\ Len(r.index) <= Longer(prev.index, next.index) + 1
                /\ recursionDepth(prev.index, next.index) <= Longer(prev.index, next.index)

\* A store holds two characters between which the allocator recurses: the
\* digits after their common prefix differ by at most one.
Witness_C20 ==
    \E d \in Sites : \E prevId, nextId \in Keys(characters[d]) :
        /\ comparePositions(PositionIn(d, prevId), PositionIn(d, nextId)) < 0
        /\ Len(PositionIn(d, nextId).index) >= 2
        /\ recursionDepth(PositionIn(d, prevId).index, PositionIn(d, nextId).index) >= 1
        /\ Len(generatePositionBetween(d, clock[d], <<PositionIn(d, prevId)>>, <<PositionIn(d, nextId)>>, <<>>).index) = 3

====
